---- MODULE Spec2Model ----
(***************************************************************************)
(* A model of the object-model core of project262: ordinary objects        *)
(* (BaseObject), property descriptors and their reconciliation, and the    *)
(* prototype link, as implemented in src/core/objects.rs,                  *)
(* src/core/property.rs, src/core/test.rs and src/core/numbers.rs; the     *)
(* symbols and their registry (src/core/symbol.rs), the conversions of     *)
(* src/core/cast.rs and the completion records of src/completions/mod.rs.  *)
(***************************************************************************)
EXTENDS Integers, Sequences, FiniteSets, TLC

VARIABLES objs, symbols, last

vars == <<objs, symbols, last>>

(***************************************************************************)
(* Option<T>: None is the empty sequence, Some(v) the one-element sequence *)
(***************************************************************************)
None == <<>>

Some(v) == <<v>>

is_some(o) == o # <<>>

is_none(o) == o = <<>>

unwrap(o) == o[1]

unwrap_or(o, d) == IF o = <<>> THEN d ELSE o[1]

(***************************************************************************)
(* f64 (numbers.rs).  A double is a record: class "nan", "inf" or "fin",   *)
(* a sign bit, and for finite values the magnitude <<hi, lo, tenths>>:     *)
(* the integer part is hi * 10^8 + lo (two limbs, since 2^53 does not fit  *)
(* the checker's integers) and tenths is the first fractional digit.       *)
(***************************************************************************)
F64(class, neg, mag) == [class |-> class, neg |-> neg, mag |-> mag]

ZeroMag == <<0, 0, 0>>

NaN == F64("nan", FALSE, ZeroMag)

PosZero == F64("fin", FALSE, ZeroMag)

NegZero == F64("fin", TRUE, ZeroMag)

INFINITY == F64("inf", FALSE, ZeroMag)

NEG_INFINITY == F64("inf", TRUE, ZeroMag)

Int64(n) == F64("fin", n < 0, <<0, IF n < 0 THEN 0 - n ELSE n, 0>>)

\* The double nearest to (int + tenths / 10), negated when neg.
Decimal(neg, int, tenths) == F64("fin", neg, <<0, int, tenths>>)

\* IEEE-754 `==` on f64: NaN equals nothing, the two zeros are equal.
F64Eq(x, y) ==
    IF x.class = "nan" \/ y.class = "nan" THEN FALSE
    ELSE IF x.class = "fin" /\ y.class = "fin" /\ x.mag = ZeroMag /\ y.mag = ZeroMag THEN TRUE
    ELSE x = y

MagLt(a, b) ==
    \/ a[1] < b[1]
    \/ a[1] = b[1] /\ a[2] < b[2]
    \/ a[1] = b[1] /\ a[2] = b[2] /\ a[3] < b[3]

\* IEEE-754 `<` on f64: false when either side is NaN, the zeros are equal.
F64Lt(x, y) ==
    IF x.class = "nan" \/ y.class = "nan" THEN FALSE
    ELSE IF F64Eq(x, y) THEN FALSE
    ELSE IF x.neg # y.neg
         THEN x.neg
    ELSE IF x.class = "inf" THEN x.neg
    ELSE IF y.class = "inf" THEN ~y.neg
    ELSE IF x.neg THEN MagLt(y.mag, x.mag) ELSE MagLt(x.mag, y.mag)

is_nan(value) == value.class = "nan"

is_zero(value) == F64Eq(value, PosZero)

is_neg_zero(value) == F64Eq(value, PosZero) /\ value.neg

is_pos_zero(value) == F64Eq(value, PosZero) /\ ~value.neg

numbers_e262_same_value(x, y) ==
    IF is_nan(x) /\ is_nan(y) THEN TRUE
    ELSE IF is_zero(x) /\ is_zero(y)
         THEN (is_neg_zero(x) /\ is_neg_zero(y)) \/ (is_pos_zero(x) /\ is_pos_zero(y))
         ELSE F64Eq(x, y)

(***************************************************************************)
(* Value (value.rs) and the SameValue test (test.rs)                       *)
(***************************************************************************)
Undefined == [type |-> "Undefined"]

Null == [type |-> "Null"]

Boolean(b) == [type |-> "Boolean", bool |-> b]

Number(f) == [type |-> "Number", num |-> f]

BigInt(n) == [type |-> "BigInt", big |-> n]

String(s) == [type |-> "String", str |-> s]

Symbol(rep) == [type |-> "Symbol", sym |-> rep]

Object(rep) == [type |-> "Object", obj |-> rep]

e262_type(value) == value.type

bigint_e262_equal(x, y) == x = y

e262_same_value_non_number(x, y) ==
    CASE x.type = "Null" /\ y.type = "Null" -> TRUE
      [] x.type = "Undefined" /\ y.type = "Undefined" -> TRUE
      [] x.type = "BigInt" /\ y.type = "BigInt" -> bigint_e262_equal(x.big, y.big)
      [] x.type = "Boolean" /\ y.type = "Boolean" -> x.bool = y.bool
      [] x.type = "String" /\ y.type = "String" -> x.str = y.str
      [] x.type = "Symbol" /\ y.type = "Symbol" -> x.sym = y.sym
      [] x.type = "Object" /\ y.type = "Object" -> x.obj = y.obj

e262_same_value(x, y) ==
    IF e262_type(x) # e262_type(y) THEN FALSE
    ELSE IF x.type = "Number" /\ y.type = "Number"
         THEN numbers_e262_same_value(x.num, y.num)
         ELSE e262_same_value_non_number(x, y)

(***************************************************************************)
(* The other relations of numbers.rs and test.rs                           *)
(***************************************************************************)
MAX_SAFE_INTEGER == F64("fin", FALSE, <<90071992, 54740991, 0>>)

numbers_e262_equal(x, y) ==
    IF is_nan(x) \/ is_nan(y) THEN FALSE
    ELSE IF is_zero(x) /\ is_zero(y) THEN TRUE
    ELSE F64Eq(x, y)

numbers_e262_same_value_zero_signed(x, y) == numbers_e262_same_value(x, y)

numbers_e262_same_value_zero(x, y) ==
    IF is_nan(x) /\ is_nan(y) THEN TRUE
    ELSE IF is_zero(x) /\ is_zero(y) THEN TRUE
    ELSE F64Eq(x, y)

is_neg_inf(value) == F64Eq(value, NEG_INFINITY)

is_pos_inf(value) == F64Eq(value, INFINITY)

e262_is_strictly_equal(x, y) ==
    IF e262_type(x) # e262_type(y) THEN FALSE
    ELSE IF x.type = "Number" /\ y.type = "Number"
         THEN numbers_e262_equal(x.num, y.num)
         ELSE e262_same_value_non_number(x, y)

e262_same_value_zero_strict(x, y) ==
    IF e262_type(x) # e262_type(y) THEN FALSE
    ELSE IF x.type = "Number" /\ y.type = "Number"
         THEN numbers_e262_equal(x.num, y.num)
         ELSE e262_same_value_non_number(x, y)

e262_same_value_zero(x, y) ==
    IF e262_type(x) # e262_type(y) THEN FALSE
    ELSE IF x.type = "Number" /\ y.type = "Number"
         THEN numbers_e262_same_value_zero(x.num, y.num)
         ELSE e262_same_value_non_number(x, y)

(***************************************************************************)
(* CoreResult and CoreError (errors/mod.rs), Completion                    *)
(* (completions/mod.rs)                                                    *)
(***************************************************************************)
Ok(value) == [ok |-> TRUE, value |-> value]

Err(err) == [ok |-> FALSE, err |-> err]

CoreError(kind, message) == [kind |-> kind, message |-> message]

TypeError(message) == CoreError("TypeError", message)

ErrorKinds ==
    {"EvalError", "RangeError", "ReferenceError", "SyntaxError", "TypeError", "URIError"}

Normal(value) == [variant |-> "Normal", value |-> value]

Throw(err) == [variant |-> "Throw", err |-> err]

Return(value) == [variant |-> "Return", value |-> value]

\* impl From<CoreResult<T>> for Completion<T> (completions/mod.rs:23-30)
Completion_from_return(result) ==
    IF result.ok THEN Return(result.value) ELSE Throw(result.err)

Completion_from(result) ==
    IF result.ok THEN Normal(result.value) ELSE Throw(result.err)

(***************************************************************************)
(* The conversions of cast.rs                                              *)
(***************************************************************************)
NegativeInfinity == [variant |-> "NegativeInfinity"]

Integer(value) == [variant |-> "Integer", value |-> value]

PositiveInfinity == [variant |-> "PositiveInfinity"]

\* str::parse::<f64> on the strings the specifications pass: Some(f) when
\* the string is a decimal literal or "inf", None on a parse error (also
\* for the empty string).
parse_f64(str) ==
    CASE str = "1" -> Some(Int64(1))
      [] str = "3.7" -> Some(Decimal(FALSE, 3, 7))
      [] str = "inf" -> Some(INFINITY)
      [] OTHER -> None

\* f64::trunc: the fraction is dropped, the sign kept (-0.5 gives -0.0).
trunc(number) ==
    IF number.class = "fin" THEN F64("fin", number.neg, <<number.mag[1], number.mag[2], 0>>)
    ELSE number

\* f64::clamp: min when self < min, max when self > max, otherwise self.
clamp(value, min, max) ==
    IF F64Lt(value, min) THEN min
    ELSE IF F64Lt(max, value) THEN max
    ELSE value

e262_to_number_lenient(argument) ==
    CASE argument.type = "Number" -> Ok(argument.num)
      [] argument.type = "BigInt" -> Ok(NaN)
      [] argument.type = "Symbol" -> Ok(NaN)
      [] argument.type = "Undefined" -> Ok(NaN)
      [] argument.type = "Null" -> Ok(PosZero)
      [] argument.type = "Boolean" -> IF argument.bool THEN Ok(Int64(1)) ELSE Ok(PosZero)
      [] argument.type = "String" -> Ok(unwrap_or(parse_f64(argument.str), NaN))
      [] argument.type = "Object" -> Ok(Int64(1))

e262_to_number(argument) ==
    CASE argument.type = "Number" -> Ok(argument.num)
      [] argument.type = "BigInt" -> Err(TypeError("Cannot convert BigInt value into Number"))
      [] argument.type = "Symbol" -> Err(TypeError("Cannot convert Symbol value into Number"))
      [] argument.type = "Undefined" -> Ok(NaN)
      [] argument.type = "Null" -> Ok(PosZero)
      [] argument.type = "Boolean" -> IF argument.bool THEN Ok(Int64(1)) ELSE Ok(PosZero)
      [] argument.type = "String" -> Ok(unwrap_or(parse_f64(argument.str), NaN))
      [] argument.type = "Object" -> Ok(Int64(1))

e262_to_integer_or_infinity(argument) ==
    LET number == e262_to_number(argument) IN
    IF ~number.ok THEN Err(number.err)
    ELSE IF is_zero(number.value) \/ is_nan(number.value) THEN Ok(Integer(PosZero))
    ELSE IF is_pos_inf(number.value) THEN Ok(PositiveInfinity)
    ELSE IF is_neg_inf(number.value) THEN Ok(NegativeInfinity)
    ELSE Ok(Integer(trunc(number.value)))

e262_to_length_unclamped(argument) ==
    LET length == e262_to_integer_or_infinity(argument) IN
    IF ~length.ok THEN Err(length.err)
    ELSE CASE length.value.variant = "NegativeInfinity" -> Ok(NEG_INFINITY)
           [] length.value.variant = "PositiveInfinity" -> Ok(INFINITY)
           [] length.value.variant = "Integer" -> Ok(length.value.value)

e262_to_length(argument) ==
    LET length == e262_to_integer_or_infinity(argument) IN
    IF ~length.ok THEN Err(length.err)
    ELSE CASE length.value.variant = "NegativeInfinity" -> Ok(PosZero)
           [] length.value.variant = "PositiveInfinity" -> Ok(MAX_SAFE_INTEGER)
           [] length.value.variant = "Integer" ->
                Ok(clamp(length.value.value, PosZero, MAX_SAFE_INTEGER))

(***************************************************************************)
(* Property and Descriptor (property.rs)                                   *)
(***************************************************************************)
Data(value, writable, enumerable, configurable) ==
    [shape |-> "Data", value |-> value, writable |-> writable,
     enumerable |-> enumerable, configurable |-> configurable]

Accessor(get, set, enumerable, configurable) ==
    [shape |-> "Accessor", get |-> get, set |-> set,
     enumerable |-> enumerable, configurable |-> configurable]

Property_is_accessor(prop) == prop.shape = "Accessor"

Property_is_data(prop) == prop.shape = "Data"

is_enumerable(prop) == prop.enumerable

is_configurable(prop) == prop.configurable

Descriptor(value, writable, get, set, enumerable, configurable) ==
    [value |-> value, writable |-> writable, get |-> get, set |-> set,
     enumerable |-> enumerable, configurable |-> configurable]

Descriptor_default == Descriptor(None, None, None, None, None, None)

Descriptor_is_accessor(desc) == is_some(desc.get) \/ is_some(desc.set)

Descriptor_is_data(desc) == is_some(desc.value) \/ is_some(desc.writable)

is_empty_never(desc) == FALSE

is_empty(desc) ==
    /\ is_none(desc.value)
    /\ is_none(desc.writable)
    /\ is_none(desc.get)
    /\ is_none(desc.set)
    /\ is_none(desc.enumerable)
    /\ is_none(desc.configurable)

is_generic(desc) == ~Descriptor_is_accessor(desc) /\ ~Descriptor_is_data(desc)

\* impl From<Property> for Descriptor
Descriptor_from(prop) ==
    IF prop.shape = "Accessor"
    THEN Descriptor(None, None, prop.get, prop.set,
                    Some(prop.enumerable), Some(prop.configurable))
    ELSE Descriptor(Some(prop.value), Some(prop.writable), None, None,
                    Some(prop.enumerable), Some(prop.configurable))

e262_is_accessor_descriptor(desc) ==
    IF desc = None THEN FALSE ELSE Descriptor_is_accessor(unwrap(desc))

\* The data branch reads desc.enumerable for the configurable attribute
\* (property.rs:206).
e262_complete_property_descriptor(desc) ==
    IF e262_is_accessor_descriptor(Some(desc))
    THEN Accessor(desc.get, desc.set,
                  unwrap_or(desc.enumerable, FALSE),
                  unwrap_or(desc.configurable, FALSE))
    ELSE Data(unwrap_or(desc.value, Undefined),
              unwrap_or(desc.writable, FALSE),
              unwrap_or(desc.enumerable, FALSE),
              unwrap_or(desc.enumerable, FALSE))

(***************************************************************************)
(* OrderMap<PropertyKey, Property>: a sequence of entries in insertion     *)
(* order, at most one entry per key.  insert keeps the place of a key      *)
(* that is present; remove closes the gap and keeps the order of the rest. *)
(***************************************************************************)
OrderMap_new == <<>>

OrderMap_index(map, key) == {i \in 1..Len(map) : map[i].key = key}

OrderMap_get(map, key) ==
    IF OrderMap_index(map, key) = {} THEN None
    ELSE Some(map[CHOOSE i \in OrderMap_index(map, key) : TRUE].prop)

OrderMap_insert(map, key, prop) ==
    IF OrderMap_index(map, key) = {}
    THEN Append(map, [key |-> key, prop |-> prop])
    ELSE [i \in 1..Len(map) |->
            IF map[i].key = key THEN [key |-> key, prop |-> prop] ELSE map[i]]

OrderMap_keep(entry, key) == entry.key # key

OrderMap_remove(map, key) == SelectSeq(map, LAMBDA entry : OrderMap_keep(entry, key))

(***************************************************************************)
(* Input sets                                                              *)
(***************************************************************************)
Keys == {"k"}

SlotKeys == {"IsHTMLDDA"}

\* Values a descriptor may carry in `value`.
DataValues == {Number(Int64(1)), Number(Int64(2))}

\* Values a descriptor may carry in `get` / `set`: undefined or a function
\* object (object 0, which is none of the ordinary objects of objs).
AccessorValues == {Undefined, Object(0)}

OptionOf(S) == {None} \cup {Some(v) : v \in S}

Descriptors ==
    {Descriptor(v, w, g, s, e, c) :
        v \in OptionOf(DataValues), w \in OptionOf(BOOLEAN),
        g \in OptionOf(AccessorValues), s \in OptionOf(AccessorValues),
        e \in OptionOf(BOOLEAN), c \in OptionOf(BOOLEAN)}

\* The keys and descriptors of the specification of several keys: the
\* descriptors store a configurable and a non-configurable data property.
ManyKeys == {"a", "b", "c"}

KeyDescriptors ==
    {Descriptor(Some(Number(Int64(1))), None, None, None, Some(TRUE), Some(TRUE)),
     Descriptor(Some(Number(Int64(2))), None, None, None, None, None)}

\* Most objects the object-graph specification creates.
MaxObjects == 3

\* Most objects the specification of all object operations creates.
MaxHeap == 2

\* The descriptors that specification defines properties with: one that
\* stores a configurable property and one that stores a non-configurable one.
SomeDescriptors ==
    {Descriptor(Some(Number(Int64(1))), None, None, None, Some(TRUE), Some(TRUE)),
     Descriptor(Some(Number(Int64(1))), None, None, None, None, None)}

\* Values stored in a slot (an Rc<dyn Any>, here a bool as for "IsHTMLDDA").
SlotValues == {Boolean(TRUE), Boolean(FALSE)}

\* Descriptions of symbols, and the most symbols the program holds.
Descriptions == {"x", "y"}

MaxSymbols == 3

(***************************************************************************)
(* SymbolRep and SymbolRegistry (symbol.rs).  `symbols` holds the map of   *)
(* the registry, the symbols the program holds, in the order it got them,  *)
(* and the number of ids drawn so far: the random 64-bit MagicId of a new  *)
(* symbol is taken to differ from every id drawn before.                   *)
(***************************************************************************)
SymbolRep(id, description) == [id |-> id, description |-> description]

SymbolRegistry_default ==
    [map |-> [d \in Descriptions |-> None], held |-> <<>>, ids |-> 0]

\* MagicId::new (id.rs:8-10): an id no earlier call has drawn.
MagicId_new(ids) == ids + 1

\* SymbolRep::new, SymbolRep::named and SymbolRep::anon (symbol.rs:33-45)
SymbolRep_new(ids, description) == SymbolRep(MagicId_new(ids), description)

SymbolRep_named(ids, description) == SymbolRep_new(ids, Some(description))

SymbolRep_anon(ids) == SymbolRep_new(ids, None)

\* The derived PartialEq of SymbolRep (symbol.rs:28): field by field.
SymbolRep_eq_description(a, b) == a.description = b.description

SymbolRep_eq(a, b) == a.id = b.id /\ a.description = b.description

\* SymbolRegistry::get (symbol.rs:16-22): the symbol returned, the map
\* afterwards and the number of ids drawn afterwards.
SymbolRegistry_get_fresh(map, ids, description) ==
    [sym |-> SymbolRep_named(ids, description),
     map |-> [map EXCEPT ![description] = Some(SymbolRep_named(ids, description))],
     ids |-> ids + 1]

SymbolRegistry_get(map, ids, description) ==
    IF is_some(map[description])
    THEN [sym |-> unwrap(map[description]), map |-> map, ids |-> ids]
    ELSE [sym |-> SymbolRep_named(ids, description),
          map |-> [map EXCEPT ![description] = Some(SymbolRep_named(ids, description))],
          ids |-> ids + 1]

(***************************************************************************)
(* BaseObject (objects.rs).  objs[i] is the i-th object created; an        *)
(* ObjectRep is the index i, and the object's id is i as well: the random  *)
(* 64-bit MagicId of two distinct objects is taken to be distinct.         *)
(***************************************************************************)
BaseObject_new(id, prototype) ==
    [id |-> id,
     props |-> OrderMap_new,
     slots |-> [s \in SlotKeys |-> None],
     prototype |-> prototype,
     extensible |-> TRUE]

ObjectReps(os) == 1..Len(os)

\* Outcome of an internal method: the returned boolean, whether the call
\* panicked instead of returning, and the objects afterwards.
Returned(ret, os) == [ret |-> ret, panic |-> FALSE, objs |-> os]

Panicked(os) == [ret |-> FALSE, panic |-> TRUE, objs |-> os]

e262_ordinary_get_own_property(os, obj, key) == OrderMap_get(os[obj].props, key)

e262_ordinary_get_prototype_of(os, obj) == os[obj].prototype

e262_ordinary_is_extensible(os, obj) == os[obj].extensible

e262_ordinary_prevent_extensions_toggle(os, obj) ==
    Returned(TRUE, [os EXCEPT ![obj].extensible = ~@])

e262_ordinary_prevent_extensions(os, obj) ==
    Returned(TRUE, [os EXCEPT ![obj].extensible = FALSE])

e262_ordinary_delete_any(os, obj, key) ==
    Returned(TRUE, [os EXCEPT ![obj].props = OrderMap_remove(@, key)])

\* A removal that moves the last entry into the place of the removed one.
OrderMap_swap_remove(map, key) ==
    IF OrderMap_index(map, key) = {} THEN map
    ELSE LET i == CHOOSE j \in OrderMap_index(map, key) : TRUE IN
         SubSeq([map EXCEPT ![i] = map[Len(map)]], 1, Len(map) - 1)

e262_ordinary_delete_swapping(os, obj, key) ==
    LET prop == e262_ordinary_get_own_property(os, obj, key) IN
    IF prop = None THEN Returned(TRUE, os)
    ELSE IF is_configurable(unwrap(prop))
         THEN Returned(TRUE, [os EXCEPT ![obj].props = OrderMap_swap_remove(@, key)])
         ELSE Returned(FALSE, os)

e262_ordinary_delete(os, obj, key) ==
    LET prop == e262_ordinary_get_own_property(os, obj, key) IN
    IF prop = None THEN Returned(TRUE, os)
    ELSE IF is_configurable(unwrap(prop))
         THEN Returned(TRUE, [os EXCEPT ![obj].props = OrderMap_remove(@, key)])
         ELSE Returned(FALSE, os)

\* BaseObject::get_slot and BaseObject::set_slot (objects.rs:91-100).
BaseObject_get_slot(os, obj, key) == os[obj].slots[key]

BaseObject_set_slot_if_extensible(os, obj, key, value) ==
    IF os[obj].extensible
    THEN Returned(TRUE, [os EXCEPT ![obj].slots[key] = Some(value)])
    ELSE Returned(FALSE, os)

BaseObject_set_slot(os, obj, key, value) ==
    Returned(TRUE, [os EXCEPT ![obj].slots[key] = Some(value)])

\* p262_has_slot (objects.rs:431-434)
p262_has_slot(os, obj, key) == is_some(BaseObject_get_slot(os, obj, key))

e262_ordinary_has_property_own(os, obj, key) ==
    Returned(is_some(e262_ordinary_get_own_property(os, obj, key)), os)

RECURSIVE e262_ordinary_has_property(_, _, _)
e262_ordinary_has_property(os, obj, key) ==
    LET has_own == e262_ordinary_get_own_property(os, obj, key) IN
    IF is_some(has_own) THEN Returned(TRUE, os)
    ELSE LET parent == e262_ordinary_get_prototype_of(os, obj) IN
         IF is_some(parent) THEN e262_ordinary_has_property(os, unwrap(parent), key)
         ELSE Returned(FALSE, os)

(***************************************************************************)
(* e262_validate_and_apply_property_descriptor (objects.rs:291-420), in    *)
(* three parts: the branch for an absent property, the rejections for a    *)
(* non-configurable current property, and the property that is stored.     *)
(***************************************************************************)
\* objects.rs:299-313.  `obj` is an Option<ObjectRep>.
ApplyAbsent_ignoring_extensible(os, obj, key, extensible, desc) ==
    IF obj = None THEN Returned(TRUE, os)
    ELSE Returned(TRUE,
            [os EXCEPT ![unwrap(obj)].props =
                OrderMap_insert(@, key, e262_complete_property_descriptor(desc))])

ApplyAbsent_storing_first(os, obj, key, extensible, desc) ==
    IF obj = None THEN Returned(extensible, os)
    ELSE Returned(extensible,
            [os EXCEPT ![unwrap(obj)].props =
                OrderMap_insert(@, key, e262_complete_property_descriptor(desc))])

ApplyAbsent(os, obj, key, extensible, desc) ==
    IF ~extensible THEN Returned(FALSE, os)
    ELSE IF obj = None THEN Returned(TRUE, os)
    ELSE Returned(TRUE,
            [os EXCEPT ![unwrap(obj)].props =
                OrderMap_insert(@, key, e262_complete_property_descriptor(desc))])

NonConfigurableRejects_allowing_configurable(desc, current) ==
    IF desc.enumerable = Some(is_enumerable(current)) THEN TRUE
    ELSE IF ~is_generic(desc)
            /\ (Descriptor_is_accessor(desc) # Property_is_accessor(current)) THEN TRUE
    ELSE IF current.shape = "Accessor"
         THEN \/ /\ is_some(desc.get)
                 /\ ~e262_same_value(unwrap(desc.get), unwrap_or(current.get, Undefined))
              \/ /\ is_some(desc.set)
                 /\ ~e262_same_value(unwrap(desc.set), unwrap_or(current.set, Undefined))
         ELSE /\ ~current.writable
              /\ \/ desc.writable = Some(TRUE)
                 \/ /\ is_some(desc.value)
                    /\ ~e262_same_value(unwrap(desc.value), current.value)

NonConfigurableRejects_ignoring_accessors(desc, current) ==
    IF desc.configurable = Some(TRUE) THEN TRUE
    ELSE IF desc.enumerable = Some(is_enumerable(current)) THEN TRUE
    ELSE IF ~is_generic(desc)
            /\ (Descriptor_is_accessor(desc) # Property_is_accessor(current)) THEN TRUE
    ELSE IF current.shape = "Accessor"
         THEN FALSE
         ELSE /\ ~current.writable
              /\ \/ desc.writable = Some(TRUE)
                 \/ /\ is_some(desc.value)
                    /\ ~e262_same_value(unwrap(desc.value), current.value)

\* objects.rs:318-367: TRUE when the call returns false for a
\* non-configurable current property.
NonConfigurableRejects(desc, current) ==
    IF desc.configurable = Some(TRUE) THEN TRUE
    ELSE IF desc.enumerable = Some(is_enumerable(current)) THEN TRUE
    ELSE IF ~is_generic(desc)
            /\ (Descriptor_is_accessor(desc) # Property_is_accessor(current)) THEN TRUE
    ELSE IF current.shape = "Accessor"
         THEN \/ /\ is_some(desc.get)
                 /\ ~e262_same_value(unwrap(desc.get), unwrap_or(current.get, Undefined))
              \/ /\ is_some(desc.set)
                 /\ ~e262_same_value(unwrap(desc.set), unwrap_or(current.set, Undefined))
         ELSE /\ ~current.writable
              /\ \/ desc.writable = Some(TRUE)
                 \/ /\ is_some(desc.value)
                    /\ ~e262_same_value(unwrap(desc.value), current.value)

AppliedProperty_defaulting(desc, current) ==
    IF current.shape = "Accessor"
    THEN IF Descriptor_is_accessor(desc)
         THEN Accessor(desc.get, desc.set,
                       unwrap_or(desc.enumerable, FALSE),
                       unwrap_or(desc.configurable, FALSE))
         ELSE Data(unwrap_or(desc.value, Undefined),
                   unwrap_or(desc.writable, FALSE),
                   unwrap_or(desc.enumerable, FALSE),
                   unwrap_or(desc.configurable, FALSE))
    ELSE IF Descriptor_is_data(desc)
         THEN Data(unwrap_or(desc.value, Undefined),
                   unwrap_or(desc.writable, FALSE),
                   unwrap_or(desc.enumerable, FALSE),
                   unwrap_or(desc.configurable, FALSE))
         ELSE Accessor(desc.get, desc.set,
                       unwrap_or(desc.enumerable, FALSE),
                       unwrap_or(desc.configurable, FALSE))

\* objects.rs:369-412: the property stored over an existing one.
AppliedProperty(desc, current) ==
    IF current.shape = "Accessor"
    THEN IF Descriptor_is_accessor(desc)
         THEN Accessor(desc.get, desc.set,
                       unwrap_or(desc.enumerable, FALSE),
                       unwrap_or(desc.configurable, FALSE))
         ELSE Data(unwrap_or(desc.value, Undefined),
                   unwrap_or(desc.writable, FALSE),
                   unwrap_or(desc.enumerable, current.enumerable),
                   unwrap_or(desc.configurable, current.configurable))
    ELSE IF Descriptor_is_data(desc)
         THEN Data(unwrap_or(desc.value, Undefined),
                   unwrap_or(desc.writable, FALSE),
                   unwrap_or(desc.enumerable, FALSE),
                   unwrap_or(desc.configurable, FALSE))
         ELSE Accessor(desc.get, desc.set,
                       unwrap_or(desc.enumerable, current.enumerable),
                       unwrap_or(desc.configurable, current.configurable))

e262_validate_and_apply_property_descriptor(os, obj, key, extensible, desc, current) ==
    IF current = None THEN ApplyAbsent(os, obj, key, extensible, desc)
    ELSE IF is_empty(desc) THEN Returned(TRUE, os)
    ELSE IF ~is_configurable(unwrap(current)) /\ NonConfigurableRejects(desc, unwrap(current))
         THEN Returned(FALSE, os)
    ELSE IF obj = None THEN Returned(TRUE, os)
    ELSE Returned(TRUE,
            [os EXCEPT ![unwrap(obj)].props =
                OrderMap_insert(@, key, AppliedProperty(desc, unwrap(current)))])

e262_ordinary_define_own_property(os, obj, key, desc) ==
    LET current == e262_ordinary_get_own_property(os, obj, key)
        extensible == e262_ordinary_is_extensible(os, obj)
    IN e262_validate_and_apply_property_descriptor(os, Some(obj), key, extensible, desc, current)

e262_is_compatible_property_descriptor_extensible(os, extensible, desc, current) ==
    e262_validate_and_apply_property_descriptor(os, None, "", TRUE, desc, current).ret

e262_is_compatible_property_descriptor(os, extensible, desc, current) ==
    e262_validate_and_apply_property_descriptor(os, None, "", extensible, desc, current).ret

(***************************************************************************)
(* e262_ordinary_set_prototype_of (objects.rs:248-288)                     *)
(***************************************************************************)
\* The walk of objects.rs:264-284.  cycle: the walk met the object itself
\* (return false); p: the value of `p` when the loop ends.
RECURSIVE ProtoWalk_past_base(_, _, _, _)
ProtoWalk_past_base(os, base_id, p, found_protos) ==
    IF p = None THEN [cycle |-> FALSE, p |-> p]
    ELSE LET curr_id == os[unwrap(p)].id IN
         IF curr_id \in found_protos THEN [cycle |-> FALSE, p |-> p]
         ELSE ProtoWalk_past_base(os, base_id, os[unwrap(p)].prototype,
                                  found_protos \cup {curr_id})

RECURSIVE ProtoWalk(_, _, _, _)
ProtoWalk(os, base_id, p, found_protos) ==
    IF p = None THEN [cycle |-> FALSE, p |-> p]
    ELSE LET curr_id == os[unwrap(p)].id IN
         IF curr_id = base_id THEN [cycle |-> TRUE, p |-> p]
         ELSE IF curr_id \in found_protos THEN [cycle |-> FALSE, p |-> p]
         ELSE ProtoWalk(os, base_id, os[unwrap(p)].prototype, found_protos \cup {curr_id})

\* RefCell::replace on base.prototype (objects.rs:285) while the RefMut
\* `current` taken at objects.rs:254 is still alive: the borrow check of the
\* cell fails and the call panics; with the borrow released it stores `p`.
RefCell_replace(os, obj, borrowed, p) ==
    IF borrowed THEN Panicked(os)
    ELSE Returned(TRUE, [os EXCEPT ![obj].prototype = p])

e262_ordinary_set_prototype_of_unchecked(os, obj, proto) ==
    IF os[obj].prototype = proto THEN Returned(TRUE, os)
    ELSE IF ~os[obj].extensible THEN Returned(FALSE, os)
    ELSE Returned(TRUE, [os EXCEPT ![obj].prototype = proto])

e262_ordinary_set_prototype_of_unborrowed(os, obj, proto) ==
    LET base_id == os[obj].id
        walk == ProtoWalk(os, base_id, proto, {})
    IN IF os[obj].prototype = proto THEN Returned(TRUE, os)
       ELSE IF ~os[obj].extensible THEN Returned(FALSE, os)
       ELSE IF walk.cycle THEN Returned(FALSE, os)
       ELSE RefCell_replace(os, obj, FALSE, walk.p)

e262_ordinary_set_prototype_of_extensible(os, obj, proto) ==
    LET base_id == os[obj].id
        walk == ProtoWalk(os, base_id, proto, {})
    IN IF os[obj].prototype = proto THEN Returned(TRUE, os)
       ELSE IF walk.cycle THEN Returned(FALSE, os)
       ELSE RefCell_replace(os, obj, TRUE, walk.p)

e262_ordinary_set_prototype_of_extensibility_first(os, obj, proto) ==
    LET base_id == os[obj].id
        walk == ProtoWalk(os, base_id, proto, {})
    IN IF ~os[obj].extensible THEN Returned(FALSE, os)
       ELSE IF os[obj].prototype = proto THEN Returned(TRUE, os)
       ELSE IF walk.cycle THEN Returned(FALSE, os)
       ELSE RefCell_replace(os, obj, TRUE, walk.p)

e262_ordinary_set_prototype_of_unguarded(os, obj, proto) ==
    RefCell_replace(os, obj, FALSE, proto)

e262_ordinary_set_prototype_of(os, obj, proto) ==
    LET base_id == os[obj].id
        walk == ProtoWalk(os, base_id, proto, {})
    IN IF os[obj].prototype = proto THEN Returned(TRUE, os)
       ELSE IF ~os[obj].extensible THEN Returned(FALSE, os)
       ELSE IF walk.cycle THEN Returned(FALSE, os)
       ELSE RefCell_replace(os, obj, TRUE, walk.p)

(***************************************************************************)
(* The calls.  The caller invokes one internal method at a time; `last`    *)
(* holds the call it has just made: the operation, its arguments, what it  *)
(* read at entry (the current property of the key, the current prototype)  *)
(* and its outcome.  The caller drops the outcome before the next call.    *)
(* A panic ends the program.                                               *)
(***************************************************************************)
Call(op, obj, key, desc, current, proto, cur_proto, out) ==
    [op |-> op, obj |-> obj, key |-> key, desc |-> desc, current |-> current,
     proto |-> proto, cur_proto |-> cur_proto, ret |-> out.ret, panic |-> out.panic]

NoCall == Call("none", 0, "", Descriptor_default, None, None, None, Returned(FALSE, <<>>))

Idle == last = NoCall

\* The caller drops the value the call returned.
Forget ==
    /\ last # NoCall
    /\ ~last.panic
    /\ last' = NoCall
    /\ UNCHANGED <<objs, symbols>>

NewObject(prototype) ==
    /\ Idle
    /\ Len(objs) < MaxObjects
    /\ objs' = Append(objs, BaseObject_new(Len(objs) + 1, prototype))
    /\ last' = Call("new", Len(objs) + 1, "", Descriptor_default, None, prototype, None,
                    Returned(TRUE, objs'))
    /\ UNCHANGED symbols

DefineOwnProperty(obj, key, desc) ==
    LET out == e262_ordinary_define_own_property(objs, obj, key, desc) IN
    /\ Idle
    /\ objs' = out.objs
    /\ last' = Call("define_own_property", obj, key, desc,
                    e262_ordinary_get_own_property(objs, obj, key), None, None, out)
    /\ UNCHANGED symbols

Delete(obj, key) ==
    LET out == e262_ordinary_delete(objs, obj, key) IN
    /\ Idle
    /\ objs' = out.objs
    /\ last' = Call("delete", obj, key, Descriptor_default,
                    e262_ordinary_get_own_property(objs, obj, key), None, None, out)
    /\ UNCHANGED symbols

PreventExtensions(obj) ==
    LET out == e262_ordinary_prevent_extensions(objs, obj) IN
    /\ Idle
    /\ objs' = out.objs
    /\ last' = Call("prevent_extensions", obj, "", Descriptor_default, None, None, None, out)
    /\ UNCHANGED symbols

SetPrototypeOf(obj, proto) ==
    LET out == e262_ordinary_set_prototype_of(objs, obj, proto) IN
    /\ Idle
    /\ objs' = out.objs
    /\ last' = Call("set_prototype_of", obj, "", Descriptor_default, None, proto,
                    e262_ordinary_get_prototype_of(objs, obj), out)
    /\ UNCHANGED symbols

HasProperty(obj, key) ==
    LET out == e262_ordinary_has_property(objs, obj, key) IN
    /\ Idle
    /\ objs' = out.objs
    /\ last' = Call("has_property", obj, key, Descriptor_default,
                    e262_ordinary_get_own_property(objs, obj, key), None,
                    e262_ordinary_get_prototype_of(objs, obj), out)
    /\ UNCHANGED symbols

\* e262_is_compatible_property_descriptor, asked with the extensibility of
\* obj and the property obj has for key.
IsCompatible(obj, key, desc) ==
    LET extensible == e262_ordinary_is_extensible(objs, obj)
        current == e262_ordinary_get_own_property(objs, obj, key)
    IN /\ Idle
       /\ last' = Call("is_compatible", obj, key, desc, current, None, None,
                       Returned(e262_is_compatible_property_descriptor(
                                    objs, extensible, desc, current), objs))
       /\ UNCHANGED <<objs, symbols>>

\* A call on a slot: the value passed (set_slot) and the slot returned
\* (get_slot), both Options.
SlotCall(op, obj, key, value, slot, out) ==
    [op |-> op, obj |-> obj, key |-> key, value |-> value, slot |-> slot,
     ret |-> out.ret, panic |-> out.panic]

SetSlot(obj, key, value) ==
    LET out == BaseObject_set_slot(objs, obj, key, value) IN
    /\ Idle
    /\ objs' = out.objs
    /\ last' = SlotCall("set_slot", obj, key, Some(value), None, out)
    /\ UNCHANGED symbols

GetSlot(obj, key) ==
    /\ Idle
    /\ last' = SlotCall("get_slot", obj, key, None, BaseObject_get_slot(objs, obj, key),
                        Returned(p262_has_slot(objs, obj, key), objs))
    /\ UNCHANGED <<objs, symbols>>

\* A call on symbols: the description passed, the positions in `held` of
\* the symbols compared, the symbol returned (an Option) and the boolean
\* returned by a comparison.
SymbolCall(op, description, a, b, sym, ret) ==
    [op |-> op, description |-> description, a |-> a, b |-> b, sym |-> sym,
     ret |-> ret, panic |-> FALSE]

\* The program keeps the symbol a call returned, with the call it came from.
Hold(sym, origin) == Append(symbols.held, [rep |-> sym, origin |-> origin])

RegistryGet(description) ==
    LET out == SymbolRegistry_get(symbols.map, symbols.ids, description) IN
    /\ Idle
    /\ Len(symbols.held) < MaxSymbols
    /\ symbols' = [map |-> out.map, held |-> Hold(out.sym, "get"), ids |-> out.ids]
    /\ last' = SymbolCall("get", Some(description), 0, 0, Some(out.sym), TRUE)
    /\ UNCHANGED objs

SymbolNew(description) ==
    /\ Idle
    /\ Len(symbols.held) < MaxSymbols
    /\ symbols' = [symbols EXCEPT
                      !.held = Hold(SymbolRep_new(symbols.ids, description), "new"),
                      !.ids = MagicId_new(symbols.ids)]
    /\ last' = SymbolCall("new", description, 0, 0,
                          Some(SymbolRep_new(symbols.ids, description)), TRUE)
    /\ UNCHANGED objs

SymbolNamed(description) ==
    /\ Idle
    /\ Len(symbols.held) < MaxSymbols
    /\ symbols' = [symbols EXCEPT
                      !.held = Hold(SymbolRep_named(symbols.ids, description), "named"),
                      !.ids = MagicId_new(symbols.ids)]
    /\ last' = SymbolCall("named", Some(description), 0, 0,
                          Some(SymbolRep_named(symbols.ids, description)), TRUE)
    /\ UNCHANGED objs

SymbolAnon ==
    /\ Idle
    /\ Len(symbols.held) < MaxSymbols
    /\ symbols' = [symbols EXCEPT
                      !.held = Hold(SymbolRep_anon(symbols.ids), "anon"),
                      !.ids = MagicId_new(symbols.ids)]
    /\ last' = SymbolCall("anon", None, 0, 0, Some(SymbolRep_anon(symbols.ids)), TRUE)
    /\ UNCHANGED objs

\* a == b on two symbols the program holds.
SymbolEq(a, b) ==
    /\ Idle
    /\ last' = SymbolCall("eq", None, a, b, None,
                          SymbolRep_eq(symbols.held[a].rep, symbols.held[b].rep))
    /\ UNCHANGED <<objs, symbols>>

\* The doubles, strings and values the conversions and relations are
\* applied to: the zeros, NaN, the infinities, integers and fractions of
\* both signs, 2^53 - 1 and 2^53; the symbols the program holds and the
\* objects it has created.
Doubles ==
    {NaN, PosZero, NegZero, Int64(1), Int64(-5), Decimal(FALSE, 3, 7),
     Decimal(FALSE, 0, 5), Decimal(TRUE, 0, 5), INFINITY, NEG_INFINITY,
     MAX_SAFE_INTEGER, F64("fin", FALSE, <<90071992, 54740992, 0>>)}

Strings == {"", "1", "3.7", "inf", "foo"}

Values ==
    {Undefined, Null, Boolean(TRUE), Boolean(FALSE), BigInt(1), BigInt(2)}
    \cup {Number(f) : f \in Doubles}
    \cup {String(str) : str \in Strings}
    \cup {Symbol(symbols.held[i].rep) : i \in 1..Len(symbols.held)}
    \cup {Object(obj) : obj \in ObjectReps(objs)}

CoreResults ==
    {Ok(value) : value \in {Undefined, Boolean(TRUE), Number(NaN), String("foo")}}
    \cup {Err(CoreError(kind, message)) : kind \in ErrorKinds, message \in {"", "foo"}}

\* A call of a conversion or relation: its arguments (y is an Option), the
\* CoreResult or Completion returned (an Option) and the boolean returned.
ValueCall(op, x, y, result, ret) ==
    [op |-> op, x |-> x, y |-> y, result |-> result, ret |-> ret, panic |-> FALSE]

CompletionFrom(result) ==
    /\ Idle
    /\ last' = ValueCall("completion_from", result, None, Some(Completion_from(result)), TRUE)
    /\ UNCHANGED <<objs, symbols>>

ToNumber(argument) ==
    /\ Idle
    /\ last' = ValueCall("to_number", argument, None, Some(e262_to_number(argument)), TRUE)
    /\ UNCHANGED <<objs, symbols>>

ToIntegerOrInfinity(argument) ==
    /\ Idle
    /\ last' = ValueCall("to_integer_or_infinity", argument, None,
                         Some(e262_to_integer_or_infinity(argument)), TRUE)
    /\ UNCHANGED <<objs, symbols>>

ToLength(argument) ==
    /\ Idle
    /\ last' = ValueCall("to_length", argument, None, Some(e262_to_length(argument)), TRUE)
    /\ UNCHANGED <<objs, symbols>>

SameValue(x, y) ==
    /\ Idle
    /\ last' = ValueCall("same_value", x, Some(y), None, e262_same_value(x, y))
    /\ UNCHANGED <<objs, symbols>>

SameValueZero(x, y) ==
    /\ Idle
    /\ last' = ValueCall("same_value_zero", x, Some(y), None, e262_same_value_zero(x, y))
    /\ UNCHANGED <<objs, symbols>>

StrictEquals(x, y) ==
    /\ Idle
    /\ last' = ValueCall("is_strictly_equal", x, Some(y), None, e262_is_strictly_equal(x, y))
    /\ UNCHANGED <<objs, symbols>>

(***************************************************************************)
(* Spec: the object graph.  Objects are created with a null prototype or   *)
(* an existing object as prototype, and then have their prototype set and  *)
(* their extensions prevented.                                             *)
(***************************************************************************)
Init ==
    /\ objs = <<>>
    /\ symbols = SymbolRegistry_default
    /\ last = NoCall

Next ==
    \/ \E prototype \in OptionOf(ObjectReps(objs)) : NewObject(prototype)
    \/ \E obj \in ObjectReps(objs), proto \in OptionOf(ObjectReps(objs)) :
          SetPrototypeOf(obj, proto)
    \/ \E obj \in ObjectReps(objs) : PreventExtensions(obj)
    \/ Forget

Spec == Init /\ [][Next]_vars

(***************************************************************************)
(* SpecProp: the own properties of one ordinary object, under every        *)
(* descriptor of Descriptors.                                              *)
(***************************************************************************)
InitProp ==
    /\ objs = <<BaseObject_new(1, None)>>
    /\ symbols = SymbolRegistry_default
    /\ last = NoCall

NextProp ==
    \/ \E obj \in ObjectReps(objs), key \in Keys, desc \in Descriptors :
          DefineOwnProperty(obj, key, desc)
    \/ \E obj \in ObjectReps(objs), key \in Keys : Delete(obj, key)
    \/ \E obj \in ObjectReps(objs) : PreventExtensions(obj)
    \/ Forget

SpecProp == InitProp /\ [][NextProp]_vars

(***************************************************************************)
(* SpecCompat: SpecProp with the validation-only reconciliation.           *)
(***************************************************************************)
NextCompat ==
    \/ \E obj \in ObjectReps(objs), key \in Keys, desc \in Descriptors :
          DefineOwnProperty(obj, key, desc)
    \/ \E obj \in ObjectReps(objs), key \in Keys, desc \in Descriptors :
          IsCompatible(obj, key, desc)
    \/ \E obj \in ObjectReps(objs), key \in Keys : Delete(obj, key)
    \/ \E obj \in ObjectReps(objs) : PreventExtensions(obj)
    \/ Forget

SpecCompat == InitProp /\ [][NextCompat]_vars

(***************************************************************************)
(* SpecKeys: the own properties of two objects, the first the prototype of *)
(* the second, under the keys of ManyKeys.                                 *)
(***************************************************************************)
InitKeys ==
    /\ objs = <<BaseObject_new(1, None), BaseObject_new(2, Some(1))>>
    /\ symbols = SymbolRegistry_default
    /\ last = NoCall

NextKeys ==
    \/ \E obj \in ObjectReps(objs), key \in ManyKeys, desc \in KeyDescriptors :
          DefineOwnProperty(obj, key, desc)
    \/ \E obj \in ObjectReps(objs), key \in ManyKeys : Delete(obj, key)
    \/ \E obj \in ObjectReps(objs) : PreventExtensions(obj)
    \/ Forget

SpecKeys == InitKeys /\ [][NextKeys]_vars

(***************************************************************************)
(* SpecObj: every operation of ordinary objects, on at most MaxHeap        *)
(* objects, with the descriptors of SomeDescriptors.                       *)
(***************************************************************************)
NextObj ==
    \/ \E prototype \in OptionOf(ObjectReps(objs)) :
          Len(objs) < MaxHeap /\ NewObject(prototype)
    \/ \E obj \in ObjectReps(objs), key \in Keys, desc \in SomeDescriptors :
          DefineOwnProperty(obj, key, desc)
    \/ \E obj \in ObjectReps(objs), key \in Keys : Delete(obj, key)
    \/ \E obj \in ObjectReps(objs), key \in Keys : HasProperty(obj, key)
    \/ \E obj \in ObjectReps(objs) : PreventExtensions(obj)
    \/ \E obj \in ObjectReps(objs), proto \in OptionOf(ObjectReps(objs)) :
          SetPrototypeOf(obj, proto)
    \/ \E obj \in ObjectReps(objs), key \in SlotKeys, value \in SlotValues :
          SetSlot(obj, key, value)
    \/ \E obj \in ObjectReps(objs), key \in SlotKeys : GetSlot(obj, key)
    \/ Forget

SpecObj == Init /\ [][NextObj]_vars

(***************************************************************************)
(* SpecSym: symbols created directly and through the registry, at most     *)
(* MaxSymbols of them, and their comparison.                               *)
(***************************************************************************)
NextSym ==
    \/ \E description \in Descriptions : RegistryGet(description)
    \/ \E description \in OptionOf(Descriptions) : SymbolNew(description)
    \/ \E description \in Descriptions : SymbolNamed(description)
    \/ SymbolAnon
    \/ \E a \in 1..Len(symbols.held), b \in 1..Len(symbols.held) : SymbolEq(a, b)
    \/ Forget

SpecSym == Init /\ [][NextSym]_vars

(***************************************************************************)
(* SpecValue: the conversions and relations on values, applied to Values,  *)
(* with two objects created and two symbols of the same description held.  *)
(***************************************************************************)
InitValue ==
    /\ objs = <<BaseObject_new(1, None), BaseObject_new(2, None)>>
    /\ symbols = [SymbolRegistry_default EXCEPT
                     !.held = <<[rep |-> SymbolRep_named(0, "x"), origin |-> "named"],
                                [rep |-> SymbolRep_named(1, "x"), origin |-> "named"]>>,
                     !.ids = 2]
    /\ last = NoCall

NextValue ==
    \/ \E result \in CoreResults : CompletionFrom(result)
    \/ \E argument \in Values : ToNumber(argument)
    \/ \E argument \in Values : ToIntegerOrInfinity(argument)
    \/ \E argument \in Values : ToLength(argument)
    \/ \E x \in Values, y \in Values : SameValue(x, y)
    \/ \E x \in Values, y \in Values : SameValueZero(x, y)
    \/ \E x \in Values, y \in Values : StrictEquals(x, y)
    \/ Forget

SpecValue == InitValue /\ [][NextValue]_vars

(***************************************************************************)
(* Properties                                                              *)
(***************************************************************************)
\* What get_own_property(key) returns on the object of the last call.
StoredNow == e262_ordinary_get_own_property(objs, last.obj, last.key)

\* The objects met from p along prototype links, p's object first.
RECURSIVE ProtoChain(_, _, _)
ProtoChain(os, p, seen) ==
    IF p = None \/ unwrap(p) \in seen THEN seen
    ELSE ProtoChain(os, os[unwrap(p)].prototype, seen \cup {unwrap(p)})

\* C1: delete(k) on an absent or configurable own property returns true and
\* get_own_property(k) is None afterwards; on a non-configurable own property
\* it returns false and the stored property is what it was.
C1_DeleteContract ==
    last.op = "delete" =>
        IF last.current = None \/ unwrap(last.current).configurable
        THEN last.ret /\ ~last.panic /\ StoredNow = None
        ELSE ~last.ret /\ ~last.panic /\ StoredNow = last.current

C1_Witness ==
    /\ last.op = "delete"
    /\ last.current # None
    /\ unwrap(last.current).configurable
    /\ last.ret
    /\ StoredNow = None

\* C2: on an extensible object without own property k, define_own_property(k, d)
\* with d not both data- and accessor-shaped returns true and stores the
\* complete property of d's shape: every attribute d specifies has d's value,
\* every other attribute its default (undefined / false / absent).
C2_DefineNewMaterializes ==
    (/\ last.op = "define_own_property"
     /\ last.current = None
     /\ objs[last.obj].extensible
     /\ ~(Descriptor_is_data(last.desc) /\ Descriptor_is_accessor(last.desc)))
    => /\ last.ret
       /\ StoredNow = Some(
            IF Descriptor_is_accessor(last.desc)
            THEN Accessor(last.desc.get, last.desc.set,
                          unwrap_or(last.desc.enumerable, FALSE),
                          unwrap_or(last.desc.configurable, FALSE))
            ELSE Data(unwrap_or(last.desc.value, Undefined),
                      unwrap_or(last.desc.writable, FALSE),
                      unwrap_or(last.desc.enumerable, FALSE),
                      unwrap_or(last.desc.configurable, FALSE)))

\* C3: on a non-extensible object without own property k, define_own_property(k, d)
\* returns false (it returns, it does not fail) for every d, and the objects
\* are unchanged: k is still absent.
C3_DefineOnNonExtensible ==
    [][(/\ last'.op = "define_own_property"
        /\ last'.current = None
        /\ ~objs[last'.obj].extensible)
       => (/\ ~last'.ret
           /\ ~last'.panic
           /\ objs' = objs
           /\ e262_ordinary_get_own_property(objs', last'.obj, last'.key) = None)]_vars

C3_Witness ==
    /\ last.op = "define_own_property"
    /\ last.current = None
    /\ ~objs[last.obj].extensible
    /\ ~is_empty(last.desc)
    /\ ~last.ret
    /\ StoredNow = None

\* C4: defining a stored property again with the descriptor that specifies
\* all its fields with their current values returns true and leaves the
\* stored property as it was.
C4_Idempotence ==
    (/\ last.op = "define_own_property"
     /\ last.current # None
     /\ last.desc = Descriptor_from(unwrap(last.current)))
    => (last.ret /\ StoredNow = last.current)

\* C5: on a stored data property with writable = false and configurable =
\* false, a descriptor whose value is not SameValue to the stored value is
\* refused and the property is unchanged; a descriptor that specifies only a
\* value SameValue to the stored one is accepted and the property is unchanged.
C5_NonConfigurableLock ==
    (/\ last.op = "define_own_property"
     /\ last.current # None
     /\ unwrap(last.current).shape = "Data"
     /\ ~unwrap(last.current).writable
     /\ ~unwrap(last.current).configurable)
    => /\ (/\ is_some(last.desc.value)
           /\ ~e262_same_value(unwrap(last.desc.value), unwrap(last.current).value))
          => (~last.ret /\ StoredNow = last.current)
       /\ (/\ is_some(last.desc.value)
           /\ last.desc = Descriptor(last.desc.value, None, None, None, None, None)
           /\ e262_same_value(unwrap(last.desc.value), unwrap(last.current).value))
          => (last.ret /\ StoredNow = last.current)

\* C6: a key that holds a non-configurable property holds a property of the
\* same shape (data or accessor) after every call.
C6_NonConfigurableKeepsShape ==
    [][\A obj \in ObjectReps(objs), key \in Keys :
        LET cur == e262_ordinary_get_own_property(objs, obj, key)
            nxt == e262_ordinary_get_own_property(objs', obj, key)
        IN (cur # None /\ ~unwrap(cur).configurable)
           => (nxt # None /\ unwrap(nxt).shape = unwrap(cur).shape)]_vars

\* C7: when set_prototype_of(p) returns true, the stored prototype is p.
C7_SetPrototypeStores ==
    (last.op = "set_prototype_of" /\ last.ret /\ ~last.panic)
    => e262_ordinary_get_prototype_of(objs, last.obj) = last.proto

C7_Witness ==
    /\ last.op = "set_prototype_of"
    /\ last.ret
    /\ ~last.panic
    /\ last.proto # None
    /\ e262_ordinary_get_prototype_of(objs, last.obj) = last.proto

\* C8: set_prototype_of(p), with p not the current prototype and the object
\* itself on the prototype chain that starts at p, returns false and leaves
\* the prototype as it was.
C8_CycleRejected ==
    (/\ last.op = "set_prototype_of"
     /\ last.proto # last.cur_proto
     /\ last.proto # None
     /\ last.obj \in ProtoChain(objs, last.proto, {}))
    => (/\ ~last.ret
        /\ ~last.panic
        /\ objs[last.obj].prototype = last.cur_proto)

C8_Witness ==
    /\ last.op = "set_prototype_of"
    /\ last.proto # last.cur_proto
    /\ last.proto # None
    /\ unwrap(last.proto) # last.obj
    /\ last.obj \in ProtoChain(objs, last.proto, {})
    /\ objs[last.obj].extensible
    /\ ~last.ret
    /\ ~last.panic

\* C9: no object is reachable from itself along prototype links.
C9_PrototypesAcyclic ==
    \A obj \in ObjectReps(objs) : obj \notin ProtoChain(objs, objs[obj].prototype, {})

C9_Witness ==
    /\ last.op = "set_prototype_of"
    /\ last.proto = Some(last.obj)
    /\ objs[last.obj].extensible
    /\ \E obj \in ObjectReps(objs) : objs[obj].prototype = Some(last.obj)

\* C10: on a non-extensible object, set_prototype_of(p) with p not the current
\* prototype returns false and leaves the prototype as it was, null included.
C10_NonExtensibleKeepsPrototype ==
    (/\ last.op = "set_prototype_of"
     /\ ~objs[last.obj].extensible
     /\ last.proto # last.cur_proto)
    => (/\ ~last.ret
        /\ ~last.panic
        /\ objs[last.obj].prototype = last.cur_proto)

C10_Witness ==
    /\ last.op = "set_prototype_of"
    /\ ~objs[last.obj].extensible
    /\ last.proto = None
    /\ last.cur_proto # None
    /\ ~last.ret
    /\ objs[last.obj].prototype = last.cur_proto

\* C11: has_property(k) returns true iff k is an own property of the object
\* or of an object on its prototype chain, false when the chain ends at null
\* without k; the call changes no object.
C11_HasPropertyWalksChain ==
    [][last'.op = "has_property"
       => (/\ ~last'.panic
           /\ last'.ret =
                (\E o \in ProtoChain(objs, Some(last'.obj), {}) :
                    OrderMap_index(objs[o].props, last'.key) # {})
           /\ objs' = objs)]_vars

C11_Witness ==
    /\ last.op = "has_property"
    /\ last.ret
    /\ last.current = None
    /\ last.cur_proto # None
    /\ is_some(e262_ordinary_get_own_property(objs, unwrap(last.cur_proto), last.key))

\* C12: every object is created extensible; prevent_extensions returns true
\* and clears the flag; an object that is not extensible is not extensible
\* after any call.
C12_ExtensibleMonotonic ==
    [][/\ last'.op = "new" => objs'[last'.obj].extensible
       /\ last'.op = "prevent_extensions"
            => (last'.ret /\ ~last'.panic /\ ~objs'[last'.obj].extensible)
       /\ \A obj \in ObjectReps(objs) :
            ~e262_ordinary_is_extensible(objs, obj)
                => ~e262_ordinary_is_extensible(objs', obj)]_vars

C12_Witness ==
    /\ last.op = "prevent_extensions"
    /\ last.ret
    /\ ~objs[last.obj].extensible
    /\ is_some(BaseObject_get_slot(objs, last.obj, "IsHTMLDDA"))
    /\ is_some(e262_ordinary_get_own_property(objs, last.obj, "k"))

\* C15: set_slot(key, v) returns true, also on a non-extensible object, and
\* stores v in the slot, leaving props, prototype, extensible and every other
\* slot as they were; get_slot(key) returns what the slot holds, so v until
\* another set_slot on the key; no other operation writes a slot, and the
\* slots of a new object are all None.
C15_SlotContract ==
    [][/\ last'.op = "set_slot"
          => (/\ last'.ret
              /\ ~last'.panic
              /\ BaseObject_get_slot(objs', last'.obj, last'.key) = last'.value
              /\ objs' = [objs EXCEPT ![last'.obj].slots[last'.key] = last'.value])
       /\ last'.op = "get_slot"
          => (/\ last'.slot = objs[last'.obj].slots[last'.key]
              /\ objs' = objs)
       /\ last'.op # "set_slot"
          => \A obj \in ObjectReps(objs') :
                objs'[obj].slots = IF obj \in ObjectReps(objs)
                                   THEN objs[obj].slots
                                   ELSE [s \in SlotKeys |-> None]]_vars

\* get_slot returns the value a set_slot stored on a non-extensible object
\* that has an own property.
C15_Witness ==
    /\ last.op = "get_slot"
    /\ last.slot = Some(Boolean(FALSE))
    /\ ~e262_ordinary_is_extensible(objs, last.obj)
    /\ is_some(e262_ordinary_get_own_property(objs, last.obj, "k"))

\* C13: get(s) returns the symbol the registry already has for s, and the
\* one it then creates is the entry from there on: no step removes or
\* replaces an entry, so any two symbols got for the same description are
\* equal with the same identity, whatever other descriptions were got
\* in between.
C13_RegistryStable ==
    [][/\ last'.op = "get"
          => (/\ is_some(symbols.map[unwrap(last'.description)])
                    => last'.sym = symbols.map[unwrap(last'.description)]
              /\ symbols'.map[unwrap(last'.description)] = last'.sym)
       /\ \A d \in Descriptions :
             is_some(symbols.map[d]) => symbols'.map[d] = symbols.map[d]
       /\ \A a \in 1..Len(symbols'.held), b \in 1..Len(symbols'.held) :
             (/\ symbols'.held[a].origin = "get"
              /\ symbols'.held[b].origin = "get"
              /\ symbols'.held[a].rep.description = symbols'.held[b].rep.description)
             => (/\ symbols'.held[a].rep.id = symbols'.held[b].rep.id
                 /\ SymbolRep_eq(symbols'.held[a].rep, symbols'.held[b].rep))]_vars

\* get("x"), get("y"), get("x"): the third call returns the symbol of the first.
C13_Witness ==
    /\ last.op = "get"
    /\ Len(symbols.held) = 3
    /\ symbols.held[1].origin = "get"
    /\ symbols.held[2].origin = "get"
    /\ symbols.held[3].origin = "get"
    /\ symbols.held[1].rep.description # symbols.held[2].rep.description
    /\ symbols.held[1].rep = symbols.held[3].rep
    /\ last.sym = Some(symbols.held[1].rep)

\* C14: a comparison of two symbols answers whether their identity tags
\* match, whatever their descriptions; a symbol equals itself; two symbols
\* that come from separate new, named or anon calls are unequal, also with
\* the same description.
C14_SymbolIdentity ==
    last.op = "eq"
    => (/\ last.ret = (symbols.held[last.a].rep.id = symbols.held[last.b].rep.id)
        /\ last.a = last.b => last.ret
        /\ (/\ last.a # last.b
            /\ symbols.held[last.a].origin # "get"
            /\ symbols.held[last.b].origin # "get") => ~last.ret)

\* Two symbols from two named calls with the same description, compared.
C14_Witness ==
    /\ last.op = "eq"
    /\ last.a # last.b
    /\ symbols.held[last.a].origin = "named"
    /\ symbols.held[last.b].origin = "named"
    /\ symbols.held[last.a].rep.description = symbols.held[last.b].rep.description
    /\ ~last.ret

\* C16: the conversion of a CoreResult to a Completion gives Normal(v) for
\* Ok(v) and Throw(e) for Err(e), with the same v and e, and so never a
\* Return, Break or Continue completion.
C16_CompletionFromResult ==
    last.op = "completion_from"
    => (/\ last.x.ok
              => (/\ unwrap(last.result).variant = "Normal"
                  /\ unwrap(last.result).value = last.x.value)
        /\ ~last.x.ok
              => (/\ unwrap(last.result).variant = "Throw"
                  /\ unwrap(last.result).err = last.x.err)
        /\ unwrap(last.result).variant \notin {"Return", "Break", "Continue"})

\* Ok(undefined) has been converted.
C16_Witness ==
    /\ last.op = "completion_from"
    /\ last.x = Ok(Undefined)
    /\ last.result = Some(Normal(Undefined))

\* C17: ToNumber answers a TypeError for a BigInt and for a Symbol and Ok
\* for every other value: a Number unchanged, true 1, false 0, null 0,
\* undefined NaN; ToIntegerOrInfinity and ToLength answer, for a BigInt and
\* for a Symbol, the TypeError ToNumber answers.
C17_ToNumberErrors ==
    /\ last.op = "to_number"
       => IF last.x.type \in {"BigInt", "Symbol"}
          THEN ~unwrap(last.result).ok /\ unwrap(last.result).err.kind = "TypeError"
          ELSE /\ unwrap(last.result).ok
               /\ last.x.type = "Number" => unwrap(last.result).value = last.x.num
               /\ last.x = Boolean(TRUE) => unwrap(last.result).value = Int64(1)
               /\ last.x = Boolean(FALSE) => unwrap(last.result).value = PosZero
               /\ last.x = Null => unwrap(last.result).value = PosZero
               /\ last.x = Undefined => unwrap(last.result).value = NaN
    /\ (last.op \in {"to_integer_or_infinity", "to_length"}
        /\ last.x.type \in {"BigInt", "Symbol"})
       => (/\ ~unwrap(last.result).ok
           /\ unwrap(last.result).err.kind = "TypeError"
           /\ unwrap(last.result).err = e262_to_number(last.x).err)

\* ToLength has answered the TypeError of a Symbol.
C17_Witness ==
    /\ last.op = "to_length"
    /\ last.x.type = "Symbol"
    /\ last.result = Some(Err(TypeError("Cannot convert Symbol value into Number")))

\* The relations of test.rs.
Relations == {"same_value", "same_value_zero", "is_strictly_equal"}

\* What the relations answer on two non-number values of one type: objects
\* by reference, symbols by identity tag, the others by value.
SameNonNumber(x, y) ==
    CASE x.type = "Object" -> x.obj = y.obj
      [] x.type = "Symbol" -> x.sym.id = y.sym.id
      [] OTHER -> x = y

\* C18: SameValue, SameValueZero and StrictEquals answer false on values of
\* different types; SameValue(NaN, NaN) is true and SameValue(+0, -0) false,
\* SameValueZero(+0, -0) is true, StrictEquals(NaN, NaN) is false and
\* StrictEquals(+0, -0) true; on two non-number values of one type the three
\* answer alike: objects by reference, symbols by identity, strings,
\* booleans and BigInts by value.
C18_EqualityRelations ==
    last.op \in Relations
    => LET x == last.x
           y == unwrap(last.y)
       IN /\ x.type # y.type => ~last.ret
          /\ (x.type = y.type /\ x.type # "Number") => last.ret = SameNonNumber(x, y)
          /\ (x = Number(NaN) /\ y = Number(NaN))
                => last.ret = (last.op # "is_strictly_equal")
          /\ ({x, y} = {Number(PosZero), Number(NegZero)})
                => last.ret = (last.op # "same_value")

\* SameValueZero has compared +0 with -0.
C18_Witness ==
    /\ last.op = "same_value_zero"
    /\ last.x = Number(PosZero)
    /\ last.y = Some(Number(NegZero))
    /\ last.ret

\* x <= y on doubles.
F64Le(x, y) == F64Lt(x, y) \/ F64Eq(x, y)

\* C19: ToLength of a number is a number of [0, 2^53 - 1]: 0 for NaN, for
\* negative infinity and for every number that is not positive, 2^53 - 1 for
\* positive infinity and every number above 2^53 - 1, and otherwise the
\* number with its fraction dropped; every Ok result of ToLength lies in
\* [0, 2^53 - 1].
C19_ToLengthRange ==
    (last.op = "to_length" /\ unwrap(last.result).ok)
    => LET length == unwrap(last.result).value
           n == last.x.num
       IN /\ F64Le(PosZero, length) /\ F64Le(length, MAX_SAFE_INTEGER)
          /\ last.x.type = "Number"
             => (/\ (is_nan(n) \/ F64Le(n, PosZero)) => F64Eq(length, PosZero)
                 /\ F64Lt(MAX_SAFE_INTEGER, n) => length = MAX_SAFE_INTEGER
                 /\ (F64Lt(PosZero, n) /\ F64Le(n, MAX_SAFE_INTEGER))
                       => length = F64("fin", FALSE, <<n.mag[1], n.mag[2], 0>>))
          /\ last.x = Number(Int64(-5)) => length = PosZero
          /\ last.x = Number(INFINITY) => length = MAX_SAFE_INTEGER
          /\ last.x = Number(Decimal(FALSE, 3, 7)) => length = Int64(3)

\* ToLength(2^53) has answered 2^53 - 1.
C19_Witness ==
    /\ last.op = "to_length"
    /\ last.x = Number(F64("fin", FALSE, <<90071992, 54740992, 0>>))
    /\ last.result = Some(Ok(MAX_SAFE_INTEGER))

\* desc specifies fields of the shape of current only, or none of either shape.
KeepsShape(desc, current) ==
    \/ is_generic(desc)
    \/ Property_is_data(current) /\ Descriptor_is_data(desc) /\ ~Descriptor_is_accessor(desc)
    \/ Property_is_accessor(current) /\ Descriptor_is_accessor(desc) /\ ~Descriptor_is_data(desc)

\* C20: when define_own_property(k, d) returns true on an existing property
\* and d is generic or of the shape of that property, the stored property
\* has that shape and, for every attribute d leaves unspecified, the value
\* the attribute had before the call.
C20_UnspecifiedAttributesKept ==
    (/\ last.op = "define_own_property"
     /\ last.current # None
     /\ last.ret
     /\ KeepsShape(last.desc, unwrap(last.current)))
    => /\ StoredNow # None
       /\ LET now == unwrap(StoredNow)
              current == unwrap(last.current)
          IN /\ now.shape = current.shape
             /\ is_none(last.desc.enumerable) => now.enumerable = current.enumerable
             /\ is_none(last.desc.configurable) => now.configurable = current.configurable
             /\ Property_is_data(current)
                => (/\ is_none(last.desc.value) => now.value = current.value
                    /\ is_none(last.desc.writable) => now.writable = current.writable)
             /\ Property_is_accessor(current)
                => (/\ is_none(last.desc.get) => now.get = current.get
                    /\ is_none(last.desc.set) => now.set = current.set)

\* C21: when define_own_property(k, d) returns true on an existing property
\* and d is generic and not empty, the stored property has the shape of the
\* property it replaces.
C21_GenericKeepsShape ==
    (/\ last.op = "define_own_property"
     /\ last.current # None
     /\ last.ret
     /\ is_generic(last.desc)
     /\ ~is_empty(last.desc))
    => /\ StoredNow # None
       /\ unwrap(StoredNow).shape = unwrap(last.current).shape

\* C22: on a non-configurable property, a descriptor whose enumerable is
\* given and differs from the property's is refused and the property is
\* unchanged; a descriptor that gives nothing but the property's own
\* enumerable is accepted.
C22_EnumerableLock ==
    (/\ last.op = "define_own_property"
     /\ last.current # None
     /\ ~is_configurable(unwrap(last.current)))
    => /\ (/\ is_some(last.desc.enumerable)
           /\ unwrap(last.desc.enumerable) # is_enumerable(unwrap(last.current)))
          => (~last.ret /\ StoredNow = last.current)
       /\ last.desc = Descriptor(None, None, None, None,
                                 Some(is_enumerable(unwrap(last.current))), None)
          => last.ret

\* C23: define_own_property with configurable: true on a non-configurable
\* property returns false and leaves it unchanged; after every call a key
\* that held a non-configurable property still holds a non-configurable
\* property.
C23_NonConfigurableStays ==
    [][/\ (/\ last'.op = "define_own_property"
           /\ last'.current # None
           /\ ~is_configurable(unwrap(last'.current))
           /\ last'.desc.configurable = Some(TRUE))
          => (/\ ~last'.ret
              /\ e262_ordinary_get_own_property(objs', last'.obj, last'.key) = last'.current)
       /\ \A obj \in ObjectReps(objs), key \in Keys :
             LET cur == e262_ordinary_get_own_property(objs, obj, key)
                 nxt == e262_ordinary_get_own_property(objs', obj, key)
             IN (cur # None /\ ~is_configurable(unwrap(cur)))
                => (nxt # None /\ ~is_configurable(unwrap(nxt)))]_vars

\* A lone configurable: true has been refused on a non-configurable property.
C23_Witness ==
    /\ last.op = "define_own_property"
    /\ last.current # None
    /\ ~is_configurable(unwrap(last.current))
    /\ last.desc = Descriptor(None, None, None, None, None, Some(TRUE))
    /\ ~last.ret
    /\ StoredNow = last.current

\* desc specifies fields of the other shape than current's, and none of
\* current's shape.
ChangesShape(desc, current) ==
    \/ Property_is_data(current) /\ Descriptor_is_accessor(desc) /\ ~Descriptor_is_data(desc)
    \/ Property_is_accessor(current) /\ Descriptor_is_data(desc) /\ ~Descriptor_is_accessor(desc)

\* C24: when define_own_property returns true on a configurable property
\* with a descriptor of the other shape, the stored property has the
\* descriptor's shape; its value, writable, get and set are the descriptor's,
\* or undefined, false and absent where the descriptor leaves them out; its
\* enumerable and configurable are the descriptor's, or those of the
\* previous property where the descriptor leaves them out.
C24_ShapeChange ==
    (/\ last.op = "define_own_property"
     /\ last.current # None
     /\ is_configurable(unwrap(last.current))
     /\ last.ret
     /\ ChangesShape(last.desc, unwrap(last.current)))
    => /\ StoredNow # None
       /\ LET now == unwrap(StoredNow)
              current == unwrap(last.current)
          IN /\ now.shape # current.shape
             /\ now.enumerable = unwrap_or(last.desc.enumerable, current.enumerable)
             /\ now.configurable = unwrap_or(last.desc.configurable, current.configurable)
             /\ Property_is_data(now)
                => (/\ now.value = unwrap_or(last.desc.value, Undefined)
                    /\ now.writable = unwrap_or(last.desc.writable, FALSE))
             /\ Property_is_accessor(now)
                => (/\ now.get = last.desc.get
                    /\ now.set = last.desc.set)

\* An enumerable, configurable accessor with a setter has become a data
\* property under a descriptor that gives only writable.
C24_Witness ==
    /\ last.op = "define_own_property"
    /\ last.ret
    /\ last.current = Some(Accessor(None, Some(Object(0)), TRUE, TRUE))
    /\ last.desc = Descriptor(None, Some(TRUE), None, None, None, None)
    /\ StoredNow = Some(Data(Undefined, TRUE, TRUE, TRUE))

\* C25: set_prototype_of(p) with p the current prototype of the object (the
\* same object, or null for null) returns true and leaves the prototype as
\* it is, also on a non-extensible object.
C25_SamePrototypeAccepted ==
    (last.op = "set_prototype_of" /\ last.proto = last.cur_proto)
    => (/\ last.ret
        /\ ~last.panic
        /\ e262_ordinary_get_prototype_of(objs, last.obj) = last.cur_proto)

\* A non-extensible object has been given the prototype it has.
C25_Witness ==
    /\ last.op = "set_prototype_of"
    /\ last.proto = last.cur_proto
    /\ last.proto # None
    /\ ~e262_ordinary_is_extensible(objs, last.obj)
    /\ last.ret

\* C26: every call of set_prototype_of runs to completion and returns true or
\* false, whatever the object and the requested prototype.
C26_SetPrototypeNeverAborts ==
    last.op = "set_prototype_of" => ~last.panic

\* The calls of e262_ordinary_has_property that has_property(key) on obj
\* makes, the first included, when they are at most fuel; 0 when the
\* recursion needs more than fuel calls.
RECURSIVE HasPropertyCalls(_, _, _, _)
HasPropertyCalls(os, obj, key, fuel) ==
    IF fuel = 0 THEN 0
    ELSE IF is_some(e262_ordinary_get_own_property(os, obj, key)) THEN 1
    ELSE IF is_none(e262_ordinary_get_prototype_of(os, obj)) THEN 1
    ELSE LET rest == HasPropertyCalls(os, unwrap(e262_ordinary_get_prototype_of(os, obj)),
                                      key, fuel - 1)
         IN IF rest = 0 THEN 0 ELSE rest + 1

\* C27: in every reachable state has_property(k) terminates on every object,
\* for the key of the properties and for a key no object has: the recursion
\* reaches an owner of k or a null prototype within as many calls as there
\* are objects.
C27_HasPropertyTerminates ==
    \A obj \in ObjectReps(objs), key \in Keys \cup {"absent"} :
        HasPropertyCalls(objs, obj, key, Len(objs)) # 0

\* has_property has gone through a prototype to a null prototype.
C27_Witness ==
    /\ last.op = "has_property"
    /\ ~last.ret
    /\ ~last.panic
    /\ last.cur_proto # None
    /\ HasPropertyCalls(objs, last.obj, last.key, Len(objs)) = 2

\* C28: define_own_property(k, d) with d empty on an object that has an own
\* property k returns true and leaves the property as it is, configurable
\* or not, on an extensible object or not.
C28_EmptyDescriptorNoOp ==
    (/\ last.op = "define_own_property"
     /\ last.current # None
     /\ last.desc = Descriptor_default)
    => (last.ret /\ ~last.panic /\ StoredNow = last.current)

\* The empty descriptor has been applied to a non-configurable enumerable
\* property of a non-extensible object.
C28_Witness ==
    /\ last.op = "define_own_property"
    /\ last.desc = Descriptor_default
    /\ last.current # None
    /\ ~is_configurable(unwrap(last.current))
    /\ is_enumerable(unwrap(last.current))
    /\ ~e262_ordinary_is_extensible(objs, last.obj)
    /\ last.ret
    /\ StoredNow = last.current

\* C29: is_compatible_property_descriptor(extensible, d, current) changes no
\* object and returns the boolean define_own_property(k, d) returns on an
\* object of that extensibility whose property for k is current.
C29_ValidationOnly ==
    [][last'.op = "is_compatible"
       => (/\ objs' = objs
           /\ ~last'.panic
           /\ last'.ret = e262_ordinary_define_own_property(
                              objs, last'.obj, last'.key, last'.desc).ret)]_vars

\* The validation has refused a descriptor for an absent key of a
\* non-extensible object.
C29_Witness ==
    /\ last.op = "is_compatible"
    /\ last.current = None
    /\ ~e262_ordinary_is_extensible(objs, last.obj)
    /\ ~last.ret

\* C30: on a non-configurable accessor property, a descriptor that gives a
\* get not SameValue to the property's getter (undefined for an absent
\* getter) is refused and the property is unchanged, and likewise for set;
\* a descriptor that gives nothing but a get, or a set, SameValue to the
\* property's is accepted.
C30_AccessorLock ==
    (/\ last.op = "define_own_property"
     /\ last.current # None
     /\ Property_is_accessor(unwrap(last.current))
     /\ ~is_configurable(unwrap(last.current)))
    => LET current == unwrap(last.current)
           get == unwrap_or(current.get, Undefined)
           set == unwrap_or(current.set, Undefined)
       IN /\ (is_some(last.desc.get) /\ ~e262_same_value(unwrap(last.desc.get), get))
             => (~last.ret /\ StoredNow = last.current)
          /\ (is_some(last.desc.set) /\ ~e262_same_value(unwrap(last.desc.set), set))
             => (~last.ret /\ StoredNow = last.current)
          /\ last.desc = Descriptor(None, None, Some(get), None, None, None) => last.ret
          /\ last.desc = Descriptor(None, None, None, Some(set), None, None) => last.ret

\* A getter has been refused on a non-configurable accessor without getter,
\* by a descriptor no other check refuses.
C30_Witness ==
    /\ last.op = "define_own_property"
    /\ last.current # None
    /\ Property_is_accessor(unwrap(last.current))
    /\ ~is_configurable(unwrap(last.current))
    /\ unwrap(last.current).get = None
    /\ last.desc = Descriptor(None, None, Some(Object(0)), None, None, None)
    /\ ~last.ret
    /\ StoredNow = last.current

\* The keys of an own-property map, in the order of the map.
KeyOrder(map) == [i \in 1..Len(map) |-> map[i].key]

\* A sequence of keys without key.
Without(keys, key) == SelectSeq(keys, LAMBDA k : k # key)

\* C31: a define_own_property that returns true puts a new key after every
\* key the object has and leaves an existing key where it is; delete(k)
\* leaves the other keys in the order they had.
C31_InsertionOrder ==
    [][/\ (last'.op = "define_own_property" /\ last'.ret)
          => KeyOrder(objs'[last'.obj].props)
               = IF last'.current = None
                 THEN Append(KeyOrder(objs[last'.obj].props), last'.key)
                 ELSE KeyOrder(objs[last'.obj].props)
       /\ last'.op = "delete"
          => Without(KeyOrder(objs'[last'.obj].props), last'.key)
               = Without(KeyOrder(objs[last'.obj].props), last'.key)]_vars

\* The first of three keys has been deleted.
C31_Witness ==
    /\ last.op = "delete"
    /\ last.ret
    /\ last.current # None
    /\ last.key = "a"
    /\ KeyOrder(objs[last.obj].props) = <<"b", "c">>

\* C32: a define_own_property(k, d) that returns false changes nothing; one
\* that returns true, and a delete(k), change neither another object, nor
\* the prototype, the extensible flag or the slots of the object, nor the
\* property of another key of the object.
C32_MutationFrame ==
    [][/\ (last'.op = "define_own_property" /\ ~last'.ret) => objs' = objs
       /\ last'.op \in {"define_own_property", "delete"}
          => (/\ ~last'.panic
              /\ ObjectReps(objs') = ObjectReps(objs)
              /\ \A obj \in ObjectReps(objs) \ {last'.obj} : objs'[obj] = objs[obj]
              /\ objs'[last'.obj].prototype = objs[last'.obj].prototype
              /\ objs'[last'.obj].extensible = objs[last'.obj].extensible
              /\ objs'[last'.obj].slots = objs[last'.obj].slots
              /\ objs'[last'.obj].id = objs[last'.obj].id
              /\ \A key \in ManyKeys \ {last'.key} :
                    e262_ordinary_get_own_property(objs', last'.obj, key)
                      = e262_ordinary_get_own_property(objs, last'.obj, key))]_vars

\* define_own_property has returned false on a non-extensible object that
\* has another key, whose prototype has properties too.
C32_Witness ==
    /\ last.op = "define_own_property"
    /\ ~last.ret
    /\ last.current = None
    /\ last.obj = 2
    /\ ~e262_ordinary_is_extensible(objs, 2)
    /\ Len(objs[2].props) > 0
    /\ Len(objs[1].props) > 0

\* What the relation op of test.rs answers on x and y.
Relation(op, x, y) ==
    CASE op = "same_value" -> e262_same_value(x, y)
      [] op = "same_value_zero" -> e262_same_value_zero(x, y)
      [] op = "is_strictly_equal" -> e262_is_strictly_equal(x, y)

\* C33: values that are SameValue are SameValueZero, values that are
\* StrictEquals are SameValueZero; each of the three relations answers on
\* (y, x) what it answers on (x, y); SameValue and SameValueZero hold of
\* every value and itself.
C33_RelationsNested ==
    last.op \in Relations
    => LET x == last.x
           y == unwrap(last.y)
       IN /\ (last.op \in {"same_value", "is_strictly_equal"} /\ last.ret)
                => e262_same_value_zero(x, y)
          /\ (last.op = "same_value_zero" /\ ~last.ret)
                => (~e262_same_value(x, y) /\ ~e262_is_strictly_equal(x, y))
          /\ last.ret = Relation(last.op, y, x)
          /\ (x = y /\ last.op # "is_strictly_equal") => last.ret

\* StrictEquals has held of +0 and -0, which are SameValueZero and not
\* SameValue.
C33_Witness ==
    /\ last.op = "is_strictly_equal"
    /\ last.x = Number(PosZero)
    /\ last.y = Some(Number(NegZero))
    /\ last.ret
    /\ e262_same_value_zero(last.x, unwrap(last.y))
    /\ ~e262_same_value(last.x, unwrap(last.y))

====
